---- MODULE Spec2Model ----
(***************************************************************************)
(* Model of nanobot's workspace file tools (nanobot/agent/tools/           *)
(* filesystem.py): _resolve_path and the read_file, write_file, edit_file  *)
(* and list_dir handlers, over a filesystem of directories, regular files  *)
(* (byte strings) and symbolic links.                                      *)
(*                                                                         *)
(* Text is a sequence of Unicode code points, file data a sequence of      *)
(* bytes.  Library calls are modelled by what CPython 3.11/3.12 on POSIX   *)
(* does: Path.resolve is posixpath.realpath (non-strict) followed by a     *)
(* stat for ELOOP, read_text decodes UTF-8 and translates newlines         *)
(* (newline=None), write_text opens with "w" (truncating) and then         *)
(* encodes, difflib.SequenceMatcher compares lists of lines.               *)
(***************************************************************************)
EXTENDS Integers, Sequences, FiniteSets, TLC

VARIABLES fs, workspace, allowed_dir, last, calls, pc, snap

vars == <<fs, workspace, allowed_dir, last, calls, pc, snap>>

----------------------------------------------------------------------------
(* Bounds of the model *)

\* longest text drawn as the content of a write (SpecWrite) and as the
\* old_text of an edit (SpecEdit)
MaxText == 2
\* longest file (bytes) of SpecEdit
MaxFileLen == 3
\* longest file content and old_text (characters) of SpecSim
MaxSimLen == 4
\* longest raw path (components) drawn as an input of SpecPath
MaxPathLen == 3
\* calls per behaviour of SpecWrite
MaxCalls == 2
\* calls per behaviour of Spec
MaxOps == 1

----------------------------------------------------------------------------
(* Code points and bytes *)

Ch == [a |-> 97, b |-> 98, LF |-> 10, CR |-> 13, eacute |-> 233,
       surrogate |-> 55296, comma |-> 44, space |-> 32]

Max2(x, y) == IF x >= y THEN x ELSE y

\* sequences over S of length 0..n
RECURSIVE SeqsUpTo(_, _)
SeqsUpTo(S, n) ==
    IF n = 0 THEN {<<>>}
    ELSE LET shorter == SeqsUpTo(S, n - 1)
         IN  shorter \cup {Append(s, x) : s \in {t \in shorter : Len(t) = n - 1}, x \in S}

RECURSIVE Concat(_)
Concat(ss) == IF ss = <<>> THEN <<>> ELSE Head(ss) \o Concat(Tail(ss))

IsPrefix(p, q) == Len(p) <= Len(q) /\ SubSeq(q, 1, Len(p)) = p

\* str.encode("utf-8") of one code point; surrogates cannot be encoded
EncodeChar(c) ==
    IF c < 128 THEN <<c>>
    ELSE IF c < 2048 THEN <<192 + (c \div 64), 128 + (c % 64)>>
    ELSE IF c < 65536 THEN <<224 + (c \div 4096), 128 + ((c \div 64) % 64), 128 + (c % 64)>>
    ELSE <<240 + (c \div 262144), 128 + ((c \div 4096) % 64),
           128 + ((c \div 64) % 64), 128 + (c % 64)>>

IsSurrogate(c) == c >= 55296 /\ c <= 57343

Encodable(text) == \A i \in 1..Len(text) : ~IsSurrogate(text[i])

Utf8Encode(text) == Concat([i \in 1..Len(text) |-> EncodeChar(text[i])])

IsCont(x) == x >= 128 /\ x <= 191

\* bytes.decode("utf-8") (strict): [ok, text]
RECURSIVE Utf8Decode(_)
Utf8Decode(bs) ==
    IF bs = <<>> THEN [ok |-> TRUE, text |-> <<>>]
    ELSE LET b1 == bs[1]
             n  == IF b1 < 128 THEN 1
                   ELSE IF b1 >= 194 /\ b1 <= 223 THEN 2
                   ELSE IF b1 >= 224 /\ b1 <= 239 THEN 3
                   ELSE IF b1 >= 240 /\ b1 <= 244 THEN 4
                   ELSE 0
             wellFormed ==
                 /\ n > 0
                 /\ Len(bs) >= n
                 /\ \A i \in 2..n : IsCont(bs[i])
                 /\ (b1 = 224 => bs[2] >= 160)
                 /\ (b1 = 237 => bs[2] <= 159)
                 /\ (b1 = 240 => bs[2] >= 144)
                 /\ (b1 = 244 => bs[2] <= 143)
             cp == IF n = 1 THEN b1
                   ELSE IF n = 2 THEN (b1 - 192) * 64 + (bs[2] - 128)
                   ELSE IF n = 3 THEN (b1 - 224) * 4096 + (bs[2] - 128) * 64 + (bs[3] - 128)
                   ELSE (b1 - 240) * 262144 + (bs[2] - 128) * 4096
                        + (bs[3] - 128) * 64 + (bs[4] - 128)
         IN  IF ~wellFormed THEN [ok |-> FALSE, text |-> <<>>]
             ELSE LET rest == Utf8Decode(SubSeq(bs, n + 1, Len(bs)))
                  IN  IF rest.ok THEN [ok |-> TRUE, text |-> <<cp>> \o rest.text]
                      ELSE rest

\* universal newlines on reading (newline=None): "\r\n" and "\r" become "\n"
RECURSIVE TranslateNewlines(_)
TranslateNewlines(t) ==
    IF t = <<>> THEN <<>>
    ELSE IF t[1] = Ch.CR
         THEN IF Len(t) >= 2 /\ t[2] = Ch.LF
              THEN <<Ch.LF>> \o TranslateNewlines(SubSeq(t, 3, Len(t)))
              ELSE <<Ch.LF>> \o TranslateNewlines(Tail(t))
         ELSE <<t[1]>> \o TranslateNewlines(Tail(t))

----------------------------------------------------------------------------
(* str operations used by EditFileTool *)

MatchAt(s, sub, i) == i + Len(sub) - 1 <= Len(s) /\ SubSeq(s, i, i + Len(sub) - 1) = sub

\* str.find from 1-based position i: the first match position, 0 when none
RECURSIVE Find(_, _, _)
Find(s, sub, i) ==
    IF i + Len(sub) - 1 > Len(s) THEN 0
    ELSE IF MatchAt(s, sub, i) THEN i
    ELSE Find(s, sub, i + 1)

\* old_text in content
Contains(s, sub) == Find(s, sub, 1) # 0

\* str.count: occurrences found left to right, each search resuming after the
\* previous match (for the empty string: one per position, Len + 1)
RECURSIVE CountFrom(_, _, _)
CountFrom(s, sub, i) ==
    IF sub = <<>> THEN Len(s) + 1
    ELSE LET k == Find(s, sub, i)
         IN  IF k = 0 THEN 0 ELSE 1 + CountFrom(s, sub, k + Len(sub))

StrCount(s, sub) == CountFrom(s, sub, 1)

\* str.replace(old, new, 1): the first occurrence replaced
ReplaceFirst(s, old, new) ==
    LET k == Find(s, old, 1)
    IN  IF k = 0 THEN s
        ELSE SubSeq(s, 1, k - 1) \o new \o SubSeq(s, k + Len(old), Len(s))

\* str.splitlines(keepends=True) for the terminators "\n", "\r\n", "\r"
RECURSIVE SplitFrom(_, _)
SplitFrom(t, cur) ==
    IF t = <<>> THEN (IF cur = <<>> THEN <<>> ELSE <<cur>>)
    ELSE IF t[1] = Ch.CR /\ Len(t) >= 2 /\ t[2] = Ch.LF
         THEN <<cur \o <<Ch.CR, Ch.LF>>>> \o SplitFrom(SubSeq(t, 3, Len(t)), <<>>)
    ELSE IF t[1] = Ch.CR \/ t[1] = Ch.LF
         THEN <<Append(cur, t[1])>> \o SplitFrom(Tail(t), <<>>)
    ELSE SplitFrom(Tail(t), Append(cur, t[1]))

Splitlines(t) == SplitFrom(t, <<>>)

----------------------------------------------------------------------------
(* difflib.SequenceMatcher(None, a, b).ratio() on two lists of lines.  No    *)
(* element is junk (isjunk is None, and autojunk only acts from 200          *)
(* elements on), so find_longest_match returns the longest common block, the *)
(* one starting earliest in a and, among those, earliest in b.               *)

MaxOf(S) == CHOOSE m \in S : \A x \in S : x <= m
MinOf(S) == CHOOSE m \in S : \A x \in S : m <= x

\* length of the common run of a from i and b from j
RECURSIVE RunLen(_, _, _, _)
RunLen(a, b, i, j) ==
    IF i > Len(a) \/ j > Len(b) \/ a[i] # b[j] THEN 0
    ELSE 1 + RunLen(a, b, i + 1, j + 1)

EarliestInB(hits, i, k) ==
    [i |-> i, j |-> MinOf({p[2] : p \in {q \in hits : q[1] = i}}), size |-> k]

EarliestBlock(hits, k) == EarliestInB(hits, MinOf({p[1] : p \in hits}), k)

LongestOfSize(a, b, k) ==
    IF k = 0 THEN [i |-> 1, j |-> 1, size |-> 0]
    ELSE EarliestBlock({p \in (1..Len(a)) \X (1..Len(b)) : RunLen(a, b, p[1], p[2]) = k}, k)

find_longest_match(a, b) ==
    LongestOfSize(a, b,
        MaxOf({0} \cup {RunLen(a, b, p[1], p[2]) : p \in (1..Len(a)) \X (1..Len(b))}))

\* sum of the sizes of get_matching_blocks(): the longest block, then the
\* blocks to its left and to its right
RECURSIVE Matches(_, _)
RECURSIVE MatchesAround(_, _, _)
MatchesAround(a, b, m) ==
    IF m.size = 0 THEN 0
    ELSE m.size
         + Matches(SubSeq(a, 1, m.i - 1), SubSeq(b, 1, m.j - 1))
         + Matches(SubSeq(a, m.i + m.size, Len(a)), SubSeq(b, m.j + m.size, Len(b)))

Matches(a, b) ==
    IF a = <<>> \/ b = <<>> THEN 0 ELSE MatchesAround(a, b, find_longest_match(a, b))

\* a ratio taken over the characters of the joined lines
RatioOfCharacters(a, b) ==
    IF Len(Concat(a)) + Len(Concat(b)) = 0 THEN [num |-> 1, den |-> 1]
    ELSE [num |-> 2 * Matches(Concat(a), Concat(b)),
          den |-> Len(Concat(a)) + Len(Concat(b))]

\* ratio() as the fraction 2*M / T (1.0 when both lists are empty)
Ratio(a, b) ==
    IF Len(a) + Len(b) = 0 THEN [num |-> 1, den |-> 1]
    ELSE [num |-> 2 * Matches(a, b), den |-> Len(a) + Len(b)]

RatioGT(r, s) == r.num * s.den > s.num * r.den

\* the float 0.0 the scan starts from, and the threshold 0.5
ZeroRatio == [num |-> 0, den |-> 1]
HalfRatio == [num |-> 1, den |-> 2]

\* lines[i : i + window] with 0-based i (a Python slice stops at the end)
Window(lines, i, window) ==
    SubSeq(lines, i + 1, IF i + window <= Len(lines) THEN i + window ELSE Len(lines))

\* a scan that also moves to a window of equal ratio
BetterOrEqual(ratio, i, best) ==
    IF ~RatioGT(best.ratio, ratio) THEN [ratio |-> ratio, start |-> i] ELSE best

\* lines 192-193: the window at i replaces the best so far when its ratio is greater
Better(ratio, i, best) ==
    IF RatioGT(ratio, best.ratio) THEN [ratio |-> ratio, start |-> i] ELSE best

\* the loop of lines 190-193, from index i with the best so far
RECURSIVE BestFrom(_, _, _, _, _)
BestFrom(old_lines, lines, i, n, best) ==
    IF i >= n THEN best
    ELSE BestFrom(old_lines, lines, i + 1, n,
                  Better(Ratio(old_lines, Window(lines, i, Len(old_lines))), i, best))

\* lines 187-193 on the two lists of lines
BestOf(old_lines, lines) ==
    BestFrom(old_lines, lines, 0, Max2(1, Len(lines) - Len(old_lines) + 1),
             [ratio |-> ZeroRatio, start |-> 0])

BestWindow(old_text, content) == BestOf(Splitlines(old_text), Splitlines(content))

----------------------------------------------------------------------------
(* The filesystem: a function from the absolute paths that exist (sequences  *)
(* of names, <<>> the root) to nodes.  A symbolic link's target is an        *)
(* absolute path without ".." components.                                    *)

Root == <<>>

\* Python's None for an optional Path
NoPath == <<"">>

\* expanduser("~") and os.getcwd()
Home == <<"o">>
Cwd == <<"o">>

DirNode == [kind |-> "dir", data |-> <<>>, target |-> <<>>]
FileNode(bytes) == [kind |-> "file", data |-> bytes, target |-> <<>>]
LinkNode(target) == [kind |-> "link", data |-> <<>>, target |-> target]

Parent(p) == IF p = <<>> THEN <<>> ELSE SubSeq(p, 1, Len(p) - 1)

PutNode(f, p, node) == (p :> node) @@ f

IsLink(f, p) == p \in DOMAIN f /\ f[p].kind = "link"

\* the kernel's path walk of an absolute, ".."-free path, following symbolic
\* links: [err, path], path the real location (its last component may not
\* exist yet).  links: the links being expanded (meeting one again is ELOOP).
RECURSIVE OsWalk(_, _, _, _)
RECURSIVE OsWalkOn(_, _, _, _)
OsWalkOn(f, r, rest, links) ==
    IF r.err # "ok" THEN r ELSE OsWalk(f, r.path, rest, links)

OsWalk(f, cur, rest, links) ==
    IF rest = <<>> THEN [err |-> "ok", path |-> cur]
    ELSE IF cur \notin DOMAIN f THEN [err |-> "ENOENT", path |-> cur]
    ELSE IF f[cur].kind # "dir" THEN [err |-> "ENOTDIR", path |-> cur]
    ELSE IF ~IsLink(f, Append(cur, Head(rest)))
         THEN OsWalk(f, Append(cur, Head(rest)), Tail(rest), links)
    ELSE IF Append(cur, Head(rest)) \in links
         THEN [err |-> "ELOOP", path |-> Append(cur, Head(rest))]
    ELSE OsWalkOn(f, OsWalk(f, Root, f[Append(cur, Head(rest))].target,
                            links \cup {Append(cur, Head(rest))}),
                  Tail(rest), links)

Walk(f, p) == OsWalk(f, Root, p, {})

\* os.stat after the walk w: "ok" or the errno
WalkErr(f, w) ==
    IF w.err # "ok" THEN w.err
    ELSE IF w.path \notin DOMAIN f THEN "ENOENT"
    ELSE "ok"

StatErr(f, p) == WalkErr(f, Walk(f, p))

RealPathOf(f, p) == Walk(f, p).path

\* the kind of the node a walk ends at: "dir", "file" or "none"
WalkKind(f, w) == IF WalkErr(f, w) = "ok" THEN f[w.path].kind ELSE "none"

\* Path.exists, is_file, is_dir: False on ENOENT, ENOTDIR, ELOOP
Exists(f, p) == WalkKind(f, Walk(f, p)) # "none"
IsFile(f, p) == WalkKind(f, Walk(f, p)) = "file"
IsDir(f, p) == WalkKind(f, Walk(f, p)) = "dir"

\* the exception class open()/mkdir()/listdir() raise for an errno
OsError(err) ==
    CASE err = "ENOENT"  -> "FileNotFoundError"
      [] err = "ENOTDIR" -> "NotADirectoryError"
      [] err = "EISDIR"  -> "IsADirectoryError"
      [] err = "EEXIST"  -> "FileExistsError"
      [] err = "EACCES"  -> "PermissionError"
      [] OTHER           -> "OSError"

\* the exception classes of the model and their base classes
BaseOf(cls) ==
    CASE cls \in {"FileNotFoundError", "NotADirectoryError", "IsADirectoryError",
                  "FileExistsError", "PermissionError"} -> "OSError"
      [] cls \in {"UnicodeDecodeError", "UnicodeEncodeError"} -> "ValueError"
      [] cls \in {"OSError", "ValueError", "RuntimeError"} -> "Exception"
      [] OTHER -> "BaseException"

RECURSIVE IsInstance(_, _)
IsInstance(cls, handler) ==
    \/ cls = handler
    \/ cls # "BaseException" /\ IsInstance(BaseOf(cls), handler)

----------------------------------------------------------------------------
(* Path.resolve(): posixpath.realpath (non-strict), then stat for ELOOP *)

\* posixpath.normpath of an absolute path
RECURSIVE NormFrom(_, _)
NormFrom(acc, rest) ==
    IF rest = <<>> THEN acc
    ELSE IF Head(rest) = ".." THEN NormFrom(Parent(acc), Tail(rest))
    ELSE NormFrom(Append(acc, Head(rest)), Tail(rest))

Normpath(p) == NormFrom(<<>>, p)

NoSeen == [x \in {} |-> NoPath]

\* posixpath._joinrealpath(path, rest, strict=False, seen): [path, ok, seen].
\* path is the resolved part; on a symlink loop the link and the rest of the
\* path are returned unresolved with ok = FALSE.
RECURSIVE JoinRealPath(_, _, _, _)
RECURSIVE JoinAfterLink(_, _, _, _)
\* lines 476-479 of posixpath.py: r is the link's resolved target
JoinAfterLink(f, newpath, rem, r) ==
    IF ~r.ok THEN [path |-> r.path \o rem, ok |-> FALSE, seen |-> r.seen]
    ELSE JoinRealPath(f, r.path, rem, (newpath :> r.path) @@ r.seen)

JoinRealPath(f, path, rest, seen) ==
    IF rest = <<>> THEN [path |-> path, ok |-> TRUE, seen |-> seen]
    ELSE IF Head(rest) = ".." THEN JoinRealPath(f, Parent(path), Tail(rest), seen)
    ELSE IF ~IsLink(f, Append(path, Head(rest)))
         THEN JoinRealPath(f, Append(path, Head(rest)), Tail(rest), seen)
    ELSE IF Append(path, Head(rest)) \in DOMAIN seen
         THEN IF seen[Append(path, Head(rest))] # NoPath
              THEN JoinRealPath(f, seen[Append(path, Head(rest))], Tail(rest), seen)
              ELSE [path |-> Append(path, Head(rest)) \o Tail(rest), ok |-> FALSE,
                    seen |-> seen]
    ELSE JoinAfterLink(f, Append(path, Head(rest)), Tail(rest),
                       JoinRealPath(f, Root, f[Append(path, Head(rest))].target,
                                    (Append(path, Head(rest)) :> NoPath) @@ seen))

\* os.path.realpath of a pure path [abs, parts]; a relative one starts from
\* the (symlink-free) current directory
Realpath(f, p) ==
    Normpath(JoinRealPath(f, IF p.abs THEN Root ELSE Cwd, p.parts, NoSeen).path)

\* the stat of Path.resolve: a symlink loop is a RuntimeError
ResolveStat(f, s) ==
    IF StatErr(f, s) = "ELOOP" THEN [exc |-> "RuntimeError", path |-> s]
    ELSE [exc |-> "None", path |-> s]

\* a name with an embedded null byte, which lstat refuses with ValueError
Nul == "NUL"

HasNul(parts) == \E i \in 1..Len(parts) : parts[i] = Nul

\* Path.resolve(): [exc, path]
Resolve(f, p) ==
    IF HasNul(p.parts) THEN [exc |-> "ValueError", path |-> p.parts]
    ELSE ResolveStat(f, Realpath(f, p))

AbsPath(parts) == [abs |-> TRUE, parts |-> parts]
RelPath(parts) == [abs |-> FALSE, parts |-> parts]

\* Path(path).expanduser()
Expanduser(p) ==
    IF ~p.abs /\ p.parts # <<>> /\ Head(p.parts) = "~"
    THEN AbsPath(Home \o Tail(p.parts))
    ELSE p

\* lines 13-14: a relative path is joined onto the workspace
JoinWorkspace(p, ws) == IF ~p.abs /\ ws # NoPath THEN AbsPath(ws \o p.parts) ELSE p

\* resolved.relative_to(base) succeeds
RelativeTo(resolved, base) == IsPrefix(base, resolved)

\* lines 17-21, base being allowed_dir.resolve()
EnforceBase(resolved, base) ==
    IF base.exc # "None" THEN [exc |-> base.exc, path |-> resolved.path]
    ELSE IF RelativeTo(resolved.path, base.path) THEN resolved
    ELSE [exc |-> "PermissionError", path |-> resolved.path]

\* lines 16-21
Enforce(f, resolved, allowed) ==
    IF resolved.exc # "None" \/ allowed = NoPath THEN resolved
    ELSE EnforceBase(resolved, Resolve(f, AbsPath(allowed)))

\* _resolve_path(path, workspace, allowed_dir): [exc, path]; exc is "None"
\* on return.  ws and allowed are absolute paths or NoPath.
_resolve_path(f, path, ws, allowed) ==
    Enforce(f, Resolve(f, JoinWorkspace(Expanduser(path), ws)), allowed)

----------------------------------------------------------------------------
(* Path methods that touch the filesystem.  io names the operating-system    *)
(* fault, if any, that the call meets ("ok": none).                          *)

ReadFail(cls) == [exc |-> cls, text |-> <<>>]

\* the decoding of read_text: UTF-8, then universal newlines
Decoded(d) ==
    IF ~d.ok THEN ReadFail("UnicodeDecodeError")
    ELSE [exc |-> "None", text |-> TranslateNewlines(d.text)]

ReadAt(f, w, io) ==
    IF w.err # "ok" THEN ReadFail(OsError(w.err))
    ELSE IF w.path \notin DOMAIN f THEN ReadFail("FileNotFoundError")
    ELSE IF io = "read_EACCES" THEN ReadFail("PermissionError")
    ELSE IF f[w.path].kind = "dir" THEN ReadFail("IsADirectoryError")
    ELSE IF io = "read_EIO" THEN ReadFail("OSError")
    ELSE Decoded(Utf8Decode(f[w.path].data))

\* Path.read_text(encoding="utf-8"): [exc, text]
ReadText(f, p, io) == ReadAt(f, Walk(f, p), io)

\* the data write_text stores for a text (newline=None on POSIX: "\n" is kept)
StoredBytes(data) == Utf8Encode(data)

\* the write after open(.., "w") has created or truncated the file
WriteOpened(truncated, real, data, io) ==
    IF io = "write_EIO" THEN [exc |-> "OSError", fs |-> truncated]
    ELSE IF ~Encodable(data) THEN [exc |-> "UnicodeEncodeError", fs |-> truncated]
    ELSE [exc |-> "None", fs |-> PutNode(truncated, real, FileNode(StoredBytes(data)))]

WriteAt(f, w, data, io) ==
    IF w.err # "ok" THEN [exc |-> OsError(w.err), fs |-> f]
    ELSE IF io = "write_EACCES" THEN [exc |-> "PermissionError", fs |-> f]
    ELSE IF w.path \in DOMAIN f /\ f[w.path].kind = "dir"
         THEN [exc |-> "IsADirectoryError", fs |-> f]
    ELSE WriteOpened(PutNode(f, w.path, FileNode(<<>>)), w.path, data, io)

\* Path.write_text(data, encoding="utf-8"): [exc, fs].  open(.., "w") creates
\* or truncates the file before the text is encoded and written.
WriteText(f, p, data, io) == WriteAt(f, Walk(f, p), data, io)

\* os.mkdir of name in the directory the walk w ends at: [err, fs]
MkdirAt(f, w, name, io) ==
    IF w.err # "ok" THEN [err |-> w.err, fs |-> f]
    ELSE IF w.path \notin DOMAIN f THEN [err |-> "ENOENT", fs |-> f]
    ELSE IF f[w.path].kind # "dir" THEN [err |-> "ENOTDIR", fs |-> f]
    ELSE IF Append(w.path, name) \in DOMAIN f THEN [err |-> "EEXIST", fs |-> f]
    ELSE IF io = "mkdir_EACCES" THEN [err |-> "EACCES", fs |-> f]
    ELSE [err |-> "ok", fs |-> PutNode(f, Append(w.path, name), DirNode)]

\* os.mkdir(p): [err, fs]
OsMkdir(f, p, io) ==
    IF p = Root THEN [err |-> "EEXIST", fs |-> f]
    ELSE MkdirAt(f, Walk(f, Parent(p)), p[Len(p)], io)

\* Path.mkdir(parents=parents, exist_ok=True): [exc, fs]
RECURSIVE Mkdir(_, _, _, _)
RECURSIVE MkdirAfter(_, _, _, _, _)
RECURSIVE MkdirInParent(_, _, _)
\* the parents are made (up), then the directory itself
MkdirInParent(up, p, io) ==
    IF up.exc # "None" THEN up ELSE Mkdir(up.fs, p, FALSE, io)

\* r is the outcome of os.mkdir(p)
MkdirAfter(f, p, parents, io, r) ==
    IF r.err = "ok" THEN [exc |-> "None", fs |-> r.fs]
    ELSE IF r.err = "ENOENT"
         THEN IF ~parents \/ p = Root THEN [exc |-> "FileNotFoundError", fs |-> f]
              ELSE MkdirInParent(Mkdir(f, Parent(p), TRUE, io), p, io)
    ELSE IF IsDir(f, p) THEN [exc |-> "None", fs |-> f]
    ELSE [exc |-> OsError(r.err), fs |-> f]

Mkdir(f, p, parents, io) == MkdirAfter(f, p, parents, io, OsMkdir(f, p, io))

\* every name of the model, in sorted order
SortedNames == <<"a", "d", "f", "n", "o", "s", "w", "x">>

Entries(f, p, present) ==
    [i \in 1..Len(present) |->
        [name |-> present[i], is_dir |-> IsDir(f, Append(p, present[i]))]]

IterdirAt(f, p, w, io) ==
    IF w.err # "ok" THEN [exc |-> OsError(w.err), entries |-> <<>>]
    ELSE IF io = "list_EACCES" THEN [exc |-> "PermissionError", entries |-> <<>>]
    ELSE [exc |-> "None",
          entries |-> Entries(f, p, SelectSeq(SortedNames,
                                              LAMBDA n : Append(w.path, n) \in DOMAIN f))]

\* sorted(dir_path.iterdir()) with each item's is_dir(): [exc, entries]
Iterdir(f, p, io) == IterdirAt(f, p, Walk(f, p), io)

----------------------------------------------------------------------------
(* The tools' execute methods.  A result is the returned string, told apart  *)
(* by the return statement that built it (kind) and the values it formats.   *)

NoResult == [kind |-> "none", text |-> <<>>, path |-> <<>>, count |-> 0,
             exc |-> "None", msg |-> "", ratio |-> ZeroRatio, line |-> 0,
             entries |-> <<>>]

Returned(kind) == [NoResult EXCEPT !.kind = kind]

\* except clauses that catch operating-system errors only
CaughtOnlyOSError(generic, exc, msg) ==
    IF IsInstance(exc, "PermissionError")
    THEN [NoResult EXCEPT !.kind = "Error", !.exc = exc, !.msg = msg]
    ELSE IF IsInstance(exc, "OSError")
    THEN [NoResult EXCEPT !.kind = generic, !.exc = exc, !.msg = msg]
    ELSE [NoResult EXCEPT !.kind = "raised", !.exc = exc, !.msg = msg]

\* the except clauses of execute: PermissionError, then Exception; anything
\* else leaves execute as an exception (kind "raised")
Caught(generic, exc, msg) ==
    IF IsInstance(exc, "PermissionError")
    THEN [NoResult EXCEPT !.kind = "Error", !.exc = exc, !.msg = msg]
    ELSE IF IsInstance(exc, "Exception")
    THEN [NoResult EXCEPT !.kind = generic, !.exc = exc, !.msg = msg]
    ELSE [NoResult EXCEPT !.kind = "raised", !.exc = exc, !.msg = msg]

\* the message of the exception _resolve_path raised
ResolveMsg(exc) ==
    CASE exc = "PermissionError" -> "outside allowed directory"
      [] exc = "RuntimeError" -> "Symlink loop"
      [] OTHER -> "embedded null byte"

\* line 63-64, t the outcome of read_text
ReadReturn(file_path, t) ==
    IF t.exc # "None" THEN Caught("Error reading file", t.exc, "os")
    ELSE [NoResult EXCEPT !.kind = "content", !.text = t.text, !.path = file_path]

\* lines 58-64, rp the outcome of _resolve_path
ReadResolved(f, rp, io) ==
    IF rp.exc # "None" THEN Caught("Error reading file", rp.exc, ResolveMsg(rp.exc))
    ELSE IF ~Exists(f, rp.path) THEN Returned("File not found")
    ELSE IF ~IsFile(f, rp.path) THEN Returned("Not a file")
    ELSE ReadReturn(rp.path, ReadText(f, rp.path, io))

\* ReadFileTool.execute
read_file(f, path, ws, allowed, io) ==
    ReadResolved(f, _resolve_path(f, path, ws, allowed), io)

\* the count write_file reports
ReportedBytes(content) == Len(content)

\* line 111, wt the outcome of write_text
WriteReturn(file_path, content, wt) ==
    IF wt.exc # "None"
    THEN [res |-> Caught("Error writing file", wt.exc, "os"), fs |-> wt.fs]
    ELSE [res |-> [NoResult EXCEPT !.kind = "Successfully wrote",
                                   !.count = ReportedBytes(content),
                                   !.path = file_path],
          fs |-> wt.fs]

\* lines 110-111, mk the outcome of the mkdir of line 109
WriteAfterMkdir(file_path, content, mk, io) ==
    IF mk.exc # "None"
    THEN [res |-> Caught("Error writing file", mk.exc, "os"), fs |-> mk.fs]
    ELSE WriteReturn(file_path, content, WriteText(mk.fs, file_path, content, io))

\* lines 109-111, rp the outcome of _resolve_path
WriteResolved(f, content, rp, io) ==
    IF rp.exc # "None"
    THEN [res |-> Caught("Error writing file", rp.exc, ResolveMsg(rp.exc)), fs |-> f]
    ELSE WriteAfterMkdir(rp.path, content, Mkdir(f, Parent(rp.path), TRUE, io), io)

\* WriteFileTool.execute: [res, fs]
write_file(f, path, content, ws, allowed, io) ==
    WriteResolved(f, content, _resolve_path(f, path, ws, allowed), io)

\* lines 195-202, best the outcome of the scan
NotFoundReturn(best) ==
    IF RatioGT(best.ratio, HalfRatio)
    THEN [NoResult EXCEPT !.kind = "Best match", !.ratio = best.ratio,
                          !.line = best.start + 1]
    ELSE [NoResult EXCEPT !.kind = "No similar text found", !.ratio = best.ratio]

\* EditFileTool._not_found_message
_not_found_message(old_text, content) == NotFoundReturn(BestWindow(old_text, content))

\* a step of EditFileTool.execute that returns r
EditDone(r) ==
    [done |-> TRUE, res |-> r, file_path |-> <<>>, content |-> <<>>,
     new_content |-> <<>>]

\* lines 170-173, count being content.count(old_text)
EditCounted(file_path, content, old_text, new_text, count) ==
    IF count > 1
    THEN EditDone([NoResult EXCEPT !.kind = "old_text appears", !.count = count])
    ELSE [done |-> FALSE, res |-> NoResult, file_path |-> file_path,
          content |-> content,
          new_content |-> ReplaceFirst(content, old_text, new_text)]

\* lines 165-173, content being the file's text
EditContent(file_path, content, old_text, new_text) ==
    IF ~Contains(content, old_text)
    THEN EditDone(_not_found_message(old_text, content))
    ELSE EditCounted(file_path, content, old_text, new_text,
                     StrCount(content, old_text))

\* lines 163-173, t the outcome of read_text
EditRead(file_path, t, old_text, new_text) ==
    IF t.exc # "None" THEN EditDone(Caught("Error editing file", t.exc, "os"))
    ELSE EditContent(file_path, t.text, old_text, new_text)

\* lines 160-173, rp the outcome of _resolve_path
EditResolved(f, rp, old_text, new_text, io) ==
    IF rp.exc # "None"
    THEN EditDone(Caught("Error editing file", rp.exc, ResolveMsg(rp.exc)))
    ELSE IF ~Exists(f, rp.path) THEN EditDone(Returned("File not found"))
    ELSE EditRead(rp.path, ReadText(f, rp.path, io), old_text, new_text)

\* EditFileTool.execute up to the computation of new_content (lines 159-173):
\* [done, res, file_path, content, new_content]; done means execute returned
EditPrepare(f, path, old_text, new_text, ws, allowed, io) ==
    EditResolved(f, _resolve_path(f, path, ws, allowed), old_text, new_text, io)

\* lines 174-176, wt the outcome of write_text
EditReturn(file_path, wt) ==
    IF wt.exc # "None"
    THEN [res |-> Caught("Error editing file", wt.exc, "os"), fs |-> wt.fs]
    ELSE [res |-> [NoResult EXCEPT !.kind = "Successfully edited", !.path = file_path],
          fs |-> wt.fs]

\* the text a commit would write if it took the replacement from the file's
\* content at the time of the write
FreshContent(t, old_text, new_text, new_content) ==
    IF t.exc = "None" /\ Contains(t.text, old_text)
    THEN ReplaceFirst(t.text, old_text, new_text)
    ELSE new_content

\* a commit that redoes the replacement on the file's current content
EditCommitFresh(f, file_path, old_text, new_text, new_content, io) ==
    EditReturn(file_path,
               WriteText(f, file_path,
                         FreshContent(ReadText(f, file_path, io), old_text, new_text,
                                      new_content), io))

\* EditFileTool.execute from the write of new_content on (lines 174-180): [res, fs]
EditCommit(f, file_path, old_text, new_text, new_content, io) ==
    EditReturn(file_path, WriteText(f, file_path, new_content, io))

\* lines 174-180 after the steps p
EditFinish(f, p, old_text, new_text, io) ==
    IF p.done THEN [res |-> p.res, fs |-> f]
    ELSE EditCommit(f, p.file_path, old_text, new_text, p.new_content, io)

\* EditFileTool.execute: [res, fs]
edit_file(f, path, old_text, new_text, ws, allowed, io) ==
    EditFinish(f, EditPrepare(f, path, old_text, new_text, ws, allowed, io),
               old_text, new_text, io)

\* lines 245-252, it the outcome of iterdir
ListReturn(dir_path, it) ==
    IF it.exc # "None" THEN Caught("Error listing directory", it.exc, "os")
    ELSE IF it.entries = <<>> THEN Returned("Directory is empty")
    ELSE [NoResult EXCEPT !.kind = "listing", !.entries = it.entries,
                          !.path = dir_path]

\* lines 239-252, rp the outcome of _resolve_path
ListResolved(f, rp, io) ==
    IF rp.exc # "None"
    THEN Caught("Error listing directory", rp.exc, ResolveMsg(rp.exc))
    ELSE IF ~Exists(f, rp.path) THEN Returned("Directory not found")
    ELSE IF ~IsDir(f, rp.path) THEN Returned("Not a directory")
    ELSE ListReturn(rp.path, Iterdir(f, rp.path, io))

\* ListDirTool.execute
list_dir(f, path, ws, allowed, io) ==
    ListResolved(f, _resolve_path(f, path, ws, allowed), io)

----------------------------------------------------------------------------
(* State.  fs: the filesystem; workspace, allowed_dir: the tools' fields     *)
(* (set by the constructors, never assigned again); last: the latest call,   *)
(* its arguments, its result and the filesystem it started from; calls: the  *)
(* number of calls made.  pc and snap belong to the callers of SpecConc,     *)
(* whose edit_file calls are split at the write.                             *)

W == <<"w">>

Callers == {1, 2}

NoCall == [op |-> "none", caller |-> 0, path |-> RelPath(<<>>), content |-> <<>>,
           old_text |-> <<>>, new_text |-> <<>>, io |-> "ok", res |-> NoResult,
           before |-> <<>>]

\* a caller's call of edit_file: its arguments, the locals file_path, content
\* and new_content, its result, and when it read and wrote (0: not yet)
NoSnap == [path |-> RelPath(<<>>), old_text |-> <<>>, new_text |-> <<>>,
           file_path |-> <<>>, content |-> <<>>, new_content |-> <<>>,
           res |-> NoResult, read_at |-> 0, wrote_at |-> 0]

InitWith(filesystems, workspaces, alloweds) ==
    /\ fs \in filesystems
    /\ workspace \in workspaces
    /\ allowed_dir \in alloweds
    /\ last = NoCall
    /\ calls = 0
    /\ pc = [c \in Callers |-> "idle"]
    /\ snap = [c \in Callers |-> NoSnap]

\* a call returns r = [res, fs]
Return(op, path, content, old_text, new_text, io, r) ==
    /\ last' = [op |-> op, caller |-> 0, path |-> path, content |-> content,
                old_text |-> old_text, new_text |-> new_text, io |-> io,
                res |-> r.res, before |-> fs]
    /\ fs' = r.fs
    /\ calls' = calls + 1
    /\ UNCHANGED <<workspace, allowed_dir, pc, snap>>

\* the outcome of _resolve_path as a result: returned or raised
Resolved(r) ==
    [NoResult EXCEPT !.kind = IF r.exc = "None" THEN "returned" ELSE "raised",
                     !.exc = r.exc, !.path = r.path]

\* _resolve_path called on its own
ResolvePath(path) ==
    Return("_resolve_path", path, <<>>, <<>>, <<>>, "ok",
           [res |-> Resolved(_resolve_path(fs, path, workspace, allowed_dir)),
            fs |-> fs])

ReadFile(path, io) ==
    Return("read_file", path, <<>>, <<>>, <<>>, io,
           [res |-> read_file(fs, path, workspace, allowed_dir, io), fs |-> fs])

WriteFile(path, content, io) ==
    Return("write_file", path, content, <<>>, <<>>, io,
           write_file(fs, path, content, workspace, allowed_dir, io))

EditFile(path, old_text, new_text, io) ==
    Return("edit_file", path, <<>>, old_text, new_text, io,
           edit_file(fs, path, old_text, new_text, workspace, allowed_dir, io))

ListDir(path, io) ==
    Return("list_dir", path, <<>>, <<>>, <<>>, io,
           [res |-> list_dir(fs, path, workspace, allowed_dir, io), fs |-> fs])

----------------------------------------------------------------------------
(* SpecPath: one call of _resolve_path or of a tool, on every raw path of up *)
(* to MaxPathLen components, over workspaces that hold a directory, a file,  *)
(* a link that leaves the workspace and a link that loops.                   *)

BaseFS ==
    (Root :> DirNode) @@ (W :> DirNode) @@ (<<"o">> :> DirNode)
    @@ (<<"o", "s">> :> FileNode(<<Ch.a>>))

WithNodes(f, nodes) == [p \in DOMAIN nodes |-> nodes[p]] @@ f

NoNodes == [p \in {} |-> DirNode]

PathFilesystems ==
    {WithNodes(BaseFS, na @@ nx) :
        na \in {NoNodes,
                <<"w", "a">> :> DirNode,
                <<"w", "a">> :> LinkNode(<<"w", "a">>),
                <<"w", "a">> :> LinkNode(<<"o">>)},
        nx \in {NoNodes,
                <<"w", "x">> :> FileNode(<<Ch.b>>),
                <<"w", "x">> :> LinkNode(<<"o", "s">>),
                <<"w", "x">> :> LinkNode(<<"w", "a">>)}}

PathComps == {"a", "x", "o", "s", "w", "..", "~"}

RawPaths ==
    {[abs |-> ab, parts |-> q] : ab \in BOOLEAN, q \in SeqsUpTo(PathComps, MaxPathLen)}

InitPath == InitWith(PathFilesystems, {W, NoPath}, {W, NoPath})

PathResolve == calls < 1 /\ \E path \in RawPaths : ResolvePath(path)
PathRead == calls < 1 /\ \E path \in RawPaths : ReadFile(path, "ok")
PathWrite == calls < 1 /\ \E path \in RawPaths : WriteFile(path, <<Ch.b>>, "ok")
PathEdit == calls < 1 /\ \E path \in RawPaths : EditFile(path, <<Ch.a>>, <<Ch.b>>, "ok")
PathList == calls < 1 /\ \E path \in RawPaths : ListDir(path, "ok")

NextPath == PathResolve \/ PathRead \/ PathWrite \/ PathEdit \/ PathList

SpecPath == InitPath /\ [][NextPath]_vars

\* the tools, as the op of a call
Tools == {"read_file", "write_file", "edit_file", "list_dir"}

\* the location the tools reach through the raw path: the path they resolve
\* it to, with the symbolic links left in it followed as open() follows them
TargetOf(f, path, ws) ==
    RealPathOf(f, Realpath(f, JoinWorkspace(Expanduser(path), ws)))

\* a location is the boundary or below it
Within(f, location, allowed) == IsPrefix(RealPathOf(f, allowed), location)

\* C1: whenever _resolve_path returns with an allowed directory B set, the
\* path it returns is B or a descendant of B: the location the returned path
\* denotes (every symbolic link in it followed) lies under B, never outside.
C1_Containment ==
    (last.op = "_resolve_path" /\ allowed_dir # NoPath /\ last.res.kind = "returned")
        => Within(fs, RealPathOf(fs, last.res.path), allowed_dir)

\* C5: a call of a tool on a path whose target lies outside the allowed
\* directory returns the permission-denied result and leaves every file and
\* directory as it was.
C5_OutsideDenied ==
    (/\ last.op \in Tools
     /\ allowed_dir # NoPath
     /\ ~Within(last.before, TargetOf(last.before, last.path, workspace), allowed_dir))
        => /\ last.res.kind = "Error"
           /\ last.res.msg = "outside allowed directory"
           /\ fs = last.before

----------------------------------------------------------------------------
(* SpecWrite: up to MaxCalls calls of write_file and read_file in a          *)
(* workspace, with every text of up to MaxText characters written to a new   *)
(* file, to a file that holds other content, under a parent that does not    *)
(* exist yet, onto a directory and outside the boundary.                     *)

WriteFilesystems ==
    {WithNodes(BaseFS, (<<"w", "d">> :> DirNode) @@ nf) :
        nf \in {NoNodes, <<"w", "f">> :> FileNode(<<Ch.b, Ch.b, Ch.b>>)}}

WritePaths ==
    {RelPath(<<"f">>), RelPath(<<"n", "f">>), RelPath(<<"d">>), AbsPath(<<"o", "f">>)}

Texts == SeqsUpTo({Ch.a, Ch.LF, Ch.CR, Ch.eacute, Ch.surrogate}, MaxText)

WriteFaults == {"ok", "write_EACCES", "write_EIO", "mkdir_EACCES"}

InitWrite == InitWith(WriteFilesystems, {W}, {W, NoPath})

WriteAny ==
    /\ calls < MaxCalls
    /\ \E path \in WritePaths, content \in Texts, io \in WriteFaults :
          WriteFile(path, content, io)

ReadAny == calls < MaxCalls /\ \E path \in WritePaths : ReadFile(path, "ok")

NextWrite == WriteAny \/ ReadAny

SpecWrite == InitWrite /\ [][NextWrite]_vars

\* C4: a read_file that follows a successful write_file of the text c to the
\* same path returns exactly c.
C4_RoundTrip ==
    [][(/\ last.op = "write_file"
        /\ last.res.kind = "Successfully wrote"
        /\ last'.op = "read_file"
        /\ last'.path = last.path)
          => (last'.res.kind = "content" /\ last'.res.text = last.content)]_vars

\* C8: the count a successful write_file reports is the number of bytes the
\* file holds afterwards, the length of the UTF-8 encoding of the text.
C8_ByteCount ==
    (last.op = "write_file" /\ last.res.kind = "Successfully wrote")
        => last.res.count = Len(fs[RealPathOf(fs, last.res.path)].data)

----------------------------------------------------------------------------
(* SpecEdit: one call of edit_file in a workspace whose file f holds any     *)
(* bytes of up to MaxFileLen over "a", CR and LF, with every old_text of up  *)
(* to MaxText characters, on the file, a missing file, a directory and a     *)
(* file outside the boundary, with and without an I/O fault.                 *)

EditFilesystems ==
    {WithNodes(BaseFS, (<<"w", "d">> :> DirNode) @@ (<<"w", "f">> :> FileNode(bytes))) :
        bytes \in SeqsUpTo({Ch.a, Ch.CR, Ch.LF}, MaxFileLen)}

EditPaths ==
    {RelPath(<<"f">>), RelPath(<<"n">>), RelPath(<<"d">>), AbsPath(<<"o", "s">>)}

OldTexts == SeqsUpTo({Ch.a, Ch.LF}, MaxText)

NewTexts == {<<>>, <<Ch.b>>, <<Ch.a, Ch.a>>, <<Ch.surrogate>>}

EditFaults == {"ok", "read_EIO", "write_EACCES", "write_EIO"}

InitEdit == InitWith(EditFilesystems, {W}, {W})

NextEdit ==
    /\ calls < 1
    /\ \E path \in EditPaths, old_text \in OldTexts, new_text \in NewTexts,
          io \in EditFaults :
             EditFile(path, old_text, new_text, io)

SpecEdit == InitEdit /\ [][NextEdit]_vars

\* the text a file holds: its bytes decoded, nothing translated
TextOf(f, p) == Utf8Decode(f[RealPathOf(f, p)].data).text

\* an existing file whose bytes are text
ReadableFile(f, p) == IsFile(f, p) /\ Utf8Decode(f[RealPathOf(f, p)].data).ok

\* the positions at which sub occurs in s
Occurrences(s, sub) == {i \in 1..(Len(s) + 1) : MatchAt(s, sub, i)}

\* s with the occurrence of old at position i replaced by new
ReplacedAt(s, i, old, new) ==
    SubSeq(s, 1, i - 1) \o new \o SubSeq(s, i + Len(old), Len(s))

\* the edit succeeded exactly when there is one occurrence, and then the new
\* text is the old one with that occurrence replaced
UniqueEdit(old_content, new_content, occurrences, old_text, new_text, succeeded) ==
    /\ succeeded <=> Cardinality(occurrences) = 1
    /\ succeeded =>
          \E i \in occurrences :
             new_content = ReplacedAt(old_content, i, old_text, new_text)

UniqueEditOf(old_content, new_content, old_text, new_text, succeeded) ==
    UniqueEdit(old_content, new_content, Occurrences(old_content, old_text),
               old_text, new_text, succeeded)

\* C2: an edit_file of an existing readable file inside the boundary whose
\* content holds old_text n times succeeds if and only if n = 1, and then the
\* file's new content is the old content with that one occurrence replaced by
\* new_text, every other character unchanged.
C2_EditUniqueness ==
    (/\ last.op = "edit_file"
     /\ last.io = "ok"
     /\ Within(last.before, TargetOf(last.before, last.path, workspace), allowed_dir)
     /\ ReadableFile(last.before, TargetOf(last.before, last.path, workspace)))
        => UniqueEditOf(TextOf(last.before, TargetOf(last.before, last.path, workspace)),
                        TextOf(fs, TargetOf(last.before, last.path, workspace)),
                        last.old_text, last.new_text,
                        last.res.kind = "Successfully edited")

\* C3: an edit_file call that does not report success leaves every file as
\* it was.
C3_FailureWritesNothing ==
    (last.op = "edit_file" /\ last.res.kind # "Successfully edited")
        => fs = last.before

----------------------------------------------------------------------------
(* SpecSim: one call of edit_file on a file f that holds any text of up to   *)
(* MaxSimLen characters over "a", "b" and LF, or the line of Scenario 3,     *)
(* with any old_text of up to MaxSimLen characters, or Scenario 3's.         *)

\* "Hello, world!\n", "Hello world!" and "Hi!"
HelloLine == <<72, 101, 108, 108, 111, 44, 32, 119, 111, 114, 108, 100, 33, 10>>
HelloOld == <<72, 101, 108, 108, 111, 32, 119, 111, 114, 108, 100, 33>>
Hi == <<72, 105, 33>>

SimFile == <<"w", "f">>

SimTexts == SeqsUpTo({Ch.a, Ch.b, Ch.LF}, MaxSimLen)

SimFilesystems ==
    {WithNodes(BaseFS, SimFile :> FileNode(Utf8Encode(content))) :
        content \in SimTexts \cup {HelloLine}}

InitSim == InitWith(SimFilesystems, {W}, {W})

NextSim ==
    /\ calls < 1
    /\ \E old_text \in SimTexts \cup {HelloOld} :
          EditFile(RelPath(<<"f">>), old_text, Hi, "ok")

SpecSim == InitSim /\ [][NextSim]_vars

\* the call of Scenario 3
Scenario3 ==
    /\ last.op = "edit_file"
    /\ last.before[SimFile].data = Utf8Encode(HelloLine)
    /\ last.old_text = HelloOld

\* C7 as stated: in Scenario 3 the result is the best-match diagnostic, with
\* a ratio greater than 0.5 and the diff at line 1.
C7_Scenario3BestMatch ==
    Scenario3 => /\ last.res.kind = "Best match"
                 /\ RatioGT(last.res.ratio, HalfRatio)
                 /\ last.res.line = 1

\* C7 as amended: in Scenario 3 the lines "Hello world!" and "Hello, world!\n"
\* differ, so the best ratio is 0 and the result is the 'no similar text
\* found' message; the file is left as it was.
C7_Scenario3NoSimilar ==
    Scenario3 => /\ last.res.kind = "No similar text found"
                 /\ last.res.ratio.num = 0
                 /\ fs = last.before

C7_Witness == Scenario3 /\ last.res.kind = "No similar text found"

\* the ratio of old_text's lines to the window of content's lines at i
WindowRatio(old_lines, lines, i) == Ratio(old_lines, Window(lines, i, Len(old_lines)))

WindowRatioOf(old_text, content, i) ==
    WindowRatio(Splitlines(old_text), Splitlines(content), i)

\* the start indices the scan covers
StartsOf(old_lines, lines) == 0..(Max2(1, Len(lines) - Len(old_lines) + 1) - 1)

Starts(old_text, content) == StartsOf(Splitlines(old_text), Splitlines(content))

SameRatio(r, s) == r.num * s.den = s.num * r.den

\* start is the lowest index whose window has the maximum ratio, ratio
IsLowestBest(old_text, content, start, ratio) ==
    /\ start \in Starts(old_text, content)
    /\ SameRatio(WindowRatioOf(old_text, content, start), ratio)
    /\ \A j \in Starts(old_text, content) :
          /\ ~RatioGT(WindowRatioOf(old_text, content, j), ratio)
          /\ j < start => RatioGT(ratio, WindowRatioOf(old_text, content, j))

\* no window is more than half similar
NoneSimilar(old_text, content) ==
    \A j \in Starts(old_text, content) :
        ~RatioGT(WindowRatioOf(old_text, content, j), HalfRatio)

\* the text edit_file read from the file
ContentRead == ReadText(last.before, SimFile, "ok").text

\* C9: the start index the matcher reports (line - 1) is the lowest index
\* whose window of lines has the maximum ratio over all start indices
\* 0 <= i < max(1, totalLines - window + 1), and the ratio reported is that
\* maximum; when nothing is reported, no window has a ratio above 0.5.
C9_BestWindow ==
    /\ (last.op = "edit_file" /\ last.res.kind = "Best match")
          => IsLowestBest(last.old_text, ContentRead, last.res.line - 1, last.res.ratio)
    /\ (last.op = "edit_file" /\ last.res.kind = "No similar text found")
          => NoneSimilar(last.old_text, ContentRead)

\* a best match reported while a later window has the same ratio
C9_Witness ==
    /\ last.op = "edit_file"
    /\ last.res.kind = "Best match"
    /\ \E j \in Starts(last.old_text, ContentRead) :
          /\ j > last.res.line - 1
          /\ SameRatio(WindowRatioOf(last.old_text, ContentRead, j), last.res.ratio)

----------------------------------------------------------------------------
(* Spec: up to MaxOps calls of the four tools, with and without a            *)
(* boundary, on a workspace that holds a file, a directory, a file that is   *)
(* not UTF-8, a link that loops and a link that leaves the workspace, each   *)
(* call with or without an operating-system fault.                           *)

OpFilesystem ==
    WithNodes(BaseFS,
              (<<"w", "f">> :> FileNode(<<Ch.a>>))
              @@ (<<"w", "d">> :> DirNode)
              @@ (<<"w", "n">> :> FileNode(<<255>>))
              @@ (<<"w", "a">> :> LinkNode(<<"w", "a">>))
              @@ (<<"w", "x">> :> LinkNode(<<"o", "s">>)))

OpPaths ==
    {RelPath(<<"f">>), RelPath(<<"d">>), RelPath(<<"n">>), RelPath(<<"a">>),
     RelPath(<<"x">>), RelPath(<<"s">>), RelPath(<<"s", "f">>), RelPath(<<"f", "s">>),
     RelPath(<<"..">>), RelPath(<<"~", "s">>), RelPath(<<Nul>>), AbsPath(<<"o", "s">>),
     AbsPath(<<>>)}

OpTexts == {<<>>, <<Ch.a>>, <<Ch.surrogate>>}

ReadFaults == {"ok", "read_EACCES", "read_EIO"}
ListFaults == {"ok", "list_EACCES"}
AllWriteFaults == {"ok", "mkdir_EACCES", "write_EACCES", "write_EIO"}
AllEditFaults == {"ok", "read_EACCES", "read_EIO", "write_EACCES", "write_EIO"}

Init == InitWith({OpFilesystem}, {W, NoPath}, {W, NoPath})

Read == calls < MaxOps /\ \E path \in OpPaths, io \in ReadFaults : ReadFile(path, io)

Write ==
    /\ calls < MaxOps
    /\ \E path \in OpPaths, content \in OpTexts, io \in AllWriteFaults :
          WriteFile(path, content, io)

Edit ==
    /\ calls < MaxOps
    /\ \E path \in OpPaths, old_text \in OpTexts, new_text \in OpTexts,
          io \in AllEditFaults :
             EditFile(path, old_text, new_text, io)

List == calls < MaxOps /\ \E path \in OpPaths, io \in ListFaults : ListDir(path, io)

Next == Read \/ Write \/ Edit \/ List

Spec == Init /\ [][Next]_vars

\* the return statements of the four execute methods
ResultKinds ==
    {"content", "File not found", "Not a file", "Error", "Error reading file",
     "Successfully wrote", "Error writing file", "Best match",
     "No similar text found", "old_text appears", "Successfully edited",
     "Error editing file", "Directory not found", "Not a directory",
     "Directory is empty", "listing", "Error listing directory"}

\* C6: every call of read_file, write_file, edit_file or list_dir ends at
\* one of execute's return statements, with a result string; no exception
\* leaves execute.
C6_AlwaysReturns == last.op \in Tools => last.res.kind \in ResultKinds

\* calls that met a failure which is no operating-system error, and returned
C6_Witness ==
    /\ last.op \in Tools
    /\ last.res.exc \in {"UnicodeDecodeError", "UnicodeEncodeError", "ValueError",
                         "RuntimeError"}
    /\ last.res.kind \in ResultKinds

----------------------------------------------------------------------------
(* SpecConc: two callers, each making one call of edit_file, on the files f  *)
(* and g of a workspace.  execute takes no lock and reads the file (line     *)
(* 163) and writes it (line 174) in separate system calls, so a call is two  *)
(* steps, and another caller's steps can fall between them.  (Within one     *)
(* event loop execute never awaits and runs whole; the steps interleave      *)
(* when the callers are threads or processes.)                               *)

ConcContents == {<<Ch.a, Ch.b>>, <<Ch.b, Ch.a>>, <<Ch.a, Ch.LF, Ch.b>>}

ConcFilesystems ==
    {WithNodes(BaseFS, (<<"w", "f">> :> FileNode(Utf8Encode(cf)))
                       @@ (<<"w", "g">> :> FileNode(Utf8Encode(cg)))) :
        cf \in ConcContents, cg \in {<<Ch.a, Ch.b>>}}

ConcPaths == {RelPath(<<"f">>), RelPath(<<"g">>)}
ConcOld == {<<Ch.a>>, <<Ch.b>>, <<Ch.comma>>}
ConcNew == {<<>>, <<Ch.space>>}

InitConc == InitWith(ConcFilesystems, {W}, {W})

\* caller c has run lines 159-173, with the outcome p
Begun(c, path, old_text, new_text, p) ==
    /\ snap' = [snap EXCEPT ![c] =
                   [path |-> path, old_text |-> old_text, new_text |-> new_text,
                    file_path |-> p.file_path, content |-> p.content,
                    new_content |-> p.new_content, res |-> p.res,
                    read_at |-> calls + 1, wrote_at |-> 0]]
    /\ pc' = [pc EXCEPT ![c] = IF p.done THEN "done" ELSE "write"]
    /\ last' = IF p.done
               THEN [op |-> "edit_file", caller |-> c, path |-> path,
                     content |-> <<>>, old_text |-> old_text, new_text |-> new_text,
                     io |-> "ok", res |-> p.res, before |-> fs]
               ELSE last
    /\ calls' = calls + 1
    /\ UNCHANGED <<fs, workspace, allowed_dir>>

\* lines 159-173 of a call of edit_file by caller c: up to new_content
BeginEdit(c, path, old_text, new_text) ==
    /\ pc[c] = "idle"
    /\ Begun(c, path, old_text, new_text,
             EditPrepare(fs, path, old_text, new_text, workspace, allowed_dir, "ok"))

\* caller c has run lines 174-176, with the outcome r
Finished(c, r) ==
    /\ snap' = [snap EXCEPT ![c].res = r.res, ![c].wrote_at = calls + 1]
    /\ pc' = [pc EXCEPT ![c] = "done"]
    /\ last' = [op |-> "edit_file", caller |-> c, path |-> snap[c].path,
                content |-> <<>>, old_text |-> snap[c].old_text,
                new_text |-> snap[c].new_text, io |-> "ok", res |-> r.res,
                before |-> fs]
    /\ fs' = r.fs
    /\ calls' = calls + 1
    /\ UNCHANGED <<workspace, allowed_dir>>

\* lines 174-176 of the call of caller c: the write and the return
FinishEdit(c) ==
    /\ pc[c] = "write"
    /\ Finished(c, EditCommit(fs, snap[c].file_path, snap[c].old_text,
                              snap[c].new_text, snap[c].new_content, "ok"))

NextConc ==
    \E c \in Callers :
        \/ \E path \in ConcPaths, old_text \in ConcOld, new_text \in ConcNew :
              BeginEdit(c, path, old_text, new_text)
        \/ FinishEdit(c)

SpecConc == InitConc /\ [][NextConc]_vars

\* caller c wrote, and no caller wrote the same file after it
LastWriter(c) ==
    /\ snap[c].wrote_at > 0
    /\ \A d \in Callers :
          snap[d].file_path = snap[c].file_path => snap[d].wrote_at <= snap[c].wrote_at

\* the step just taken left every file but that of the call as it was
OthersUntouched(file_path) ==
    /\ DOMAIN fs = DOMAIN last.before
    /\ \A p \in DOMAIN fs : p # file_path => fs[p] = last.before[p]

\* C10: edits are not serialized.  The file holds what its last writer
\* computed from the content it read, whatever other callers wrote between
\* that read and that write (last writer wins), and a call changes no file
\* but its own.
C10_LastWriterWins ==
    /\ \A c \in Callers :
          LastWriter(c) =>
             /\ snap[c].res.kind = "Successfully edited"
             /\ fs[snap[c].file_path].data =
                   StoredBytes(ReplaceFirst(snap[c].content, snap[c].old_text,
                                            snap[c].new_text))
    /\ last.op = "edit_file" => OthersUntouched(snap[last.caller].file_path)

\* both callers read f before either wrote it, both report success, and the
\* change of the earlier writer is gone: the file is the later writer's
\* replacement made in the content both had read
C10_LostUpdate(early, late) ==
    /\ pc[early] = "done" /\ pc[late] = "done"
    /\ snap[early].file_path = snap[late].file_path
    /\ snap[early].res.kind = "Successfully edited"
    /\ snap[late].res.kind = "Successfully edited"
    /\ snap[late].read_at < snap[early].wrote_at
    /\ snap[early].wrote_at < snap[late].wrote_at
    /\ snap[early].old_text # snap[late].old_text
    /\ Contains(TextOf(fs, snap[late].file_path), snap[early].old_text)

C10_Witness == \E early, late \in Callers : C10_LostUpdate(early, late)

====
